---- MODULE Spec2Model ----
(***************************************************************************)
(* State-machine model of the Space Debris game (src/src/lib.rs) driven by *)
(* the polling loop of src/src/main.rs.                                    *)
(*                                                                         *)
(* The game object is the record Self built from the variables below; each *)
(* method of the source is an operator from a game record to the game      *)
(* record it leaves behind, translated statement by statement.  The two    *)
(* entry points, update() and key(), are the actions Update and Key(k).    *)
(*                                                                         *)
(* Five specifications share the variables.  Spec calls update() and       *)
(* key() in any order; SpecPool does the same without steering and lets a  *)
(* round run long enough to fill the pool; SpecPass starts in the middle   *)
(* of a round, from pools of debris of different speeds; SpecLoop is the   *)
(* loop of main.rs with its two interrupt handlers; SpecLive is Spec with  *)
(* update() called infinitely often.                                       *)
(*                                                                         *)
(* Rendering (plot, plot_str, plot_num, clear_row) writes to the VGA       *)
(* buffer only and reads no game state back, so the display methods and    *)
(* the cosmetic Debris::color are left out.  Debris::debris_status is      *)
(* written once in Debris::new and never read, and is left out too.        *)
(*                                                                         *)
(* Rand32::new(seed) is a deterministic generator the source imports; the  *)
(* model does not compute it.  The raw output that Debris::new maps into   *)
(* a row and a speed is an unknown of the run: rng is drawn at Init and    *)
(* every spawn of the run maps it into its ranges.                         *)
(***************************************************************************)
EXTENDS Integers, Sequences, FiniteSets, TLC

\* ---------------------------------------------------------------- constants
BUFFER_WIDTH == 80
DEBRIS_CAPACITY == 50
SCORE_COLUMN == 18

CW_SPAWN_RATE == 8
RMT_SPAWN_RATE == 6
N_SPAWN_RATE == 3
CW_LOWER_SPEED == 3
CW_UPPER_SPEED == 7
RMT_LOWER_SPEED == 2
RMT_UPPER_SPEED == 5
N_LOWER_SPEED == 1
N_UPPER_SPEED == 2

\* ------------------------------------------------------------------- bounds
\* vga_buffer::BUFFER_HEIGHT is 25; the model plays on a lower grid (debris
\* rows are 2..BUFFER_HEIGHT-1, the player spawns on row BUFFER_HEIGHT/2)
BUFFER_HEIGHT == 3
\* update() is not taken when it would push score beyond MaxScore
MaxScore == 1
\* the same bound in the specification that fills the debris pool
MaxScorePool == 60
\* number of distinct raw outputs of the generator in that specification
PoolRngDraws == 3
\* seed_count is a u32 that only ever seeds the generator; the model keeps it
\* modulo SeedModulus instead of modulo 2^32
SeedModulus == 3
\* number of distinct raw outputs the generator may yield
RngDraws == 1
\* timer interrupts and keyboard interrupts of a run of the polling loop
MaxTicks == 3
MaxPresses == 3
\* longest debris pool, and number of update() calls, of the specification
\* that starts from a round in progress
MaxPassLen == 3
MaxPassTicks == 2
\* score is a u32 that the removal of debris never reads; the specification
\* with fair ticks keeps it modulo ScoreModulus
ScoreModulus == 2

\* -------------------------------------------------------------------- enums
GameRunning == "GameRunning"
GameStopped == "GameStopped"
GameStatus == {GameRunning, GameStopped}

Undefined == "Undefined"
Cakewalk == "Cakewalk"
RMT == "RMT"
Nightmare == "Nightmare"
Difficulty == {Undefined, Cakewalk, RMT, Nightmare}

Normal == "Normal"
ScorePoint == "ScorePoint"
Destroy == "Destroy"

\* pc_keyboard::DecodedKey: Unicode(char) or RawKey(KeyCode)
Unicode(c) == [kind |-> "Unicode", code |-> c]
RawKey(c) == [kind |-> "RawKey", code |-> c]
DecodedKey == {Unicode("1"), Unicode("2"), Unicode("3"), Unicode("r"),
               RawKey("ArrowUp"), RawKey("ArrowDown"), RawKey("Escape")}

\* Option<DecodedKey>::None
None == [kind |-> "None", code |-> ""]

VARIABLES player, debris, score, cw_high_score, rmt_high_score, n_high_score,
          spawn_countdown, spawn_rate, seed_count, difficulty,
          collide_calls, rng,
          TICKED, LAST_KEY, pc, prev,
          burst, ticks, presses, stored, latest, delivered,
          mark

\* main.rs: the two statics, the position of cpu_loop (pc) and the value
\* fetch_update has loaded (prev).  The others are ghosts: burst counts the
\* timer interrupts since cpu_loop last polled TICKED, ticks all of them;
\* presses counts the keyboard interrupts, latest is the key of the last one,
\* stored is the number of the press whose key LAST_KEY holds and delivered
\* the number of the press last handed to game.key().
loop_vars == <<TICKED, LAST_KEY, pc, prev,
               burst, ticks, presses, stored, latest, delivered>>

\* mark is a ghost: the index in the pool of one debris followed from its
\* spawn to its removal, 0 when none is followed.
vars == <<player, debris, score, cw_high_score, rmt_high_score, n_high_score,
          spawn_countdown, spawn_rate, seed_count, difficulty,
          collide_calls, rng, loop_vars, mark>>

\* The game object.  collide_calls is a ghost field: the number of times
\* Player::collide has run since the last reset().
Self ==
  [player |-> player, debris |-> debris, score |-> score,
   cw_high_score |-> cw_high_score, rmt_high_score |-> rmt_high_score,
   n_high_score |-> n_high_score, spawn_countdown |-> spawn_countdown,
   spawn_rate |-> spawn_rate, seed_count |-> seed_count,
   difficulty |-> difficulty, collide_calls |-> collide_calls]

Assign(g) ==
  /\ player' = g.player
  /\ debris' = g.debris
  /\ score' = g.score
  /\ cw_high_score' = g.cw_high_score
  /\ rmt_high_score' = g.rmt_high_score
  /\ n_high_score' = g.n_high_score
  /\ spawn_countdown' = g.spawn_countdown
  /\ spawn_rate' = g.spawn_rate
  /\ seed_count' = g.seed_count
  /\ difficulty' = g.difficulty
  /\ collide_calls' = g.collide_calls
  /\ UNCHANGED rng

\* ------------------------------------------------------------ heapless::Vec
\* Vec_push without the capacity check
Vec_push_unbounded(v, x) == Append(v, x)

\* push fails (Err, ignored by every caller) when the vector is full
Vec_push(v, x) == IF Len(v) < DEBRIS_CAPACITY THEN Append(v, x) ELSE v

\* remove(index): the later elements shift down; indices here are 1-based
Vec_remove(v, i) == [j \in 1..(Len(v) - 1) |-> IF j < i THEN v[j] ELSE v[j + 1]]

\* the removal loop without the rev(): indices removed in ascending order,
\* deleted[Len(deleted) - k + 1] first
RECURSIVE remove_forward(_, _, _)
remove_forward(v, deleted, k) ==
  IF k = 0 THEN v
  ELSE remove_forward(
         IF deleted[Len(deleted) - k + 1] <= Len(v)
         THEN Vec_remove(v, deleted[Len(deleted) - k + 1]) ELSE v,
         deleted, k - 1)

\* for &d in deleted.iter().rev() { v.remove(d) }
RECURSIVE remove_rev(_, _, _)
remove_rev(v, deleted, k) ==
  IF k = 0 THEN v ELSE remove_rev(Vec_remove(v, deleted[k]), deleted, k - 1)

\* ---------------------------------------------------------------- helpers
\* safe_add without the mod_floor
safe_add_no_mod(LIMIT, a, b) == a + b

safe_add(LIMIT, a, b) == (a + b) % LIMIT

add1(LIMIT, value) == safe_add(LIMIT, value, 1)

sub1(LIMIT, value) == safe_add(LIMIT, value, LIMIT - 1)

\* Rand32::rand_range(lo..hi) applied to the raw output: a value in [lo, hi)
rand_range(lo, hi, draw) == lo + (draw % (hi - lo))

Player_default ==
  [col |-> BUFFER_WIDTH \div 4, row |-> BUFFER_HEIGHT \div 2, dy |-> 0,
   game_status |-> GameStopped]

Debris_new(num, lower_speed, upper_speed) ==
  [col |-> BUFFER_WIDTH - 1,
   row |-> rand_range(2, BUFFER_HEIGHT, rng),
   dx |-> rand_range(lower_speed, upper_speed, rng),
   dx_tick |-> 0]

\* ------------------------------------------------------------------ Player
Player_update_location(p) ==
  IF p.dy < 0 THEN [p EXCEPT !.row = sub1(BUFFER_HEIGHT, p.row)]
  ELSE IF p.dy > 0 THEN [p EXCEPT !.row = add1(BUFFER_HEIGHT, p.row)]
  ELSE p

\* returns the player after the tick and the event Some(status)
Player_tick(p) ==
  LET q == Player_update_location(p)
  IN [player |-> q, event |-> q.game_status]

collide(p) == [p EXCEPT !.game_status = GameStopped]

\* handle_raw without the test of game_status
handle_raw_any_status(p, code) ==
  IF code = "ArrowUp" THEN [p EXCEPT !.dy = -1]
  ELSE IF code = "ArrowDown" THEN [p EXCEPT !.dy = 1]
  ELSE p

\* handle_raw in which any other key stops the player
handle_raw_stop_on_other(p, code) ==
  IF p.game_status = GameRunning
  THEN IF code = "ArrowUp" THEN [p EXCEPT !.dy = -1]
       ELSE IF code = "ArrowDown" THEN [p EXCEPT !.dy = 1]
       ELSE [p EXCEPT !.dy = 0]
  ELSE p

handle_raw(p, code) ==
  IF p.game_status = GameRunning
  THEN IF code = "ArrowUp" THEN [p EXCEPT !.dy = -1]
       ELSE IF code = "ArrowDown" THEN [p EXCEPT !.dy = 1]
       ELSE p
  ELSE p

Player_key(p, k) == IF k.kind = "RawKey" THEN handle_raw(p, k.code) ELSE p

\* ------------------------------------------------------------------ Debris
\* update_location that never counts the delay down
Debris_update_location_no_countdown(d) ==
  IF d.dx_tick = 0
  THEN [d EXCEPT !.col = sub1(BUFFER_WIDTH, d.col), !.dx_tick = d.dx]
  ELSE d

Debris_update_location(d) ==
  IF d.dx_tick = 0
  THEN [d EXCEPT !.col = sub1(BUFFER_WIDTH, d.col), !.dx_tick = d.dx]
  ELSE [d EXCEPT !.dx_tick = d.dx_tick - 1]

\* Debris_tick that tests the coincidence before the debris moves
Debris_tick_test_before_move(d, p) ==
  IF p.game_status = GameRunning
  THEN LET e == Debris_update_location(d)
           hit == d.col = p.col /\ d.row = p.row
           q == IF hit THEN collide(p) ELSE p
       IN [debris |-> e, player |-> q, collided |-> hit,
           event |-> IF e.col = SCORE_COLUMN THEN ScorePoint
                     ELSE IF e.col = 0 THEN Destroy
                     ELSE Normal]
  ELSE [debris |-> d, player |-> p, collided |-> FALSE, event |-> Destroy]

\* Debris_tick that leaves the debris of a stopped round in the pool
Debris_tick_stopped_keeps(d, p) ==
  IF p.game_status = GameRunning
  THEN LET e == Debris_update_location(d)
           hit == e.col = p.col /\ e.row = p.row
           q == IF hit THEN collide(p) ELSE p
       IN [debris |-> e, player |-> q, collided |-> hit,
           event |-> IF e.col = SCORE_COLUMN THEN ScorePoint
                     ELSE IF e.col = 0 THEN Destroy
                     ELSE Normal]
  ELSE [debris |-> d, player |-> p, collided |-> FALSE, event |-> Normal]

\* Debris_tick that does not classify a debris at column 0 as Destroy
Debris_tick_keeps_column_zero(d, p) ==
  IF p.game_status = GameRunning
  THEN LET e == Debris_update_location(d)
           hit == e.col = p.col /\ e.row = p.row
           q == IF hit THEN collide(p) ELSE p
       IN [debris |-> e, player |-> q, collided |-> hit,
           event |-> IF e.col = SCORE_COLUMN THEN ScorePoint ELSE Normal]
  ELSE [debris |-> d, player |-> p, collided |-> FALSE, event |-> Destroy]

\* returns the debris and the player after the tick, the event, and whether
\* player.collide() ran
Debris_tick(d, p) ==
  IF p.game_status = GameRunning
  THEN LET e == Debris_update_location(d)
           hit == e.col = p.col /\ e.row = p.row
           q == IF hit THEN collide(p) ELSE p
       IN [debris |-> e, player |-> q, collided |-> hit,
           event |-> IF e.col = SCORE_COLUMN THEN ScorePoint
                     ELSE IF e.col = 0 THEN Destroy
                     ELSE Normal]
  ELSE [debris |-> d, player |-> p, collided |-> FALSE, event |-> Destroy]

\* --------------------------------------------------------- SpaceDebrisGame
SpaceDebrisGame_default ==
  [player |-> Player_default, debris |-> <<>>, score |-> 0,
   cw_high_score |-> 0, rmt_high_score |-> 0, n_high_score |-> 0,
   spawn_countdown |-> 0, spawn_rate |-> 0, seed_count |-> 0,
   difficulty |-> Undefined, collide_calls |-> 0]

increment_score(self) ==
  IF self.player.game_status = GameRunning
  THEN [self EXCEPT !.score = self.score + 1]
  ELSE self

\* update_high_score that stores the score without comparing
update_high_score_unconditional(self) ==
  CASE self.difficulty = Undefined -> self
    [] self.difficulty = Cakewalk -> [self EXCEPT !.cw_high_score = self.score]
    [] self.difficulty = RMT -> [self EXCEPT !.rmt_high_score = self.score]
    [] self.difficulty = Nightmare -> [self EXCEPT !.n_high_score = self.score]

update_high_score(self) ==
  CASE self.difficulty = Undefined -> self
    [] self.difficulty = Cakewalk ->
         IF self.score > self.cw_high_score
         THEN [self EXCEPT !.cw_high_score = self.score] ELSE self
    [] self.difficulty = RMT ->
         IF self.score > self.rmt_high_score
         THEN [self EXCEPT !.rmt_high_score = self.score] ELSE self
    [] self.difficulty = Nightmare ->
         IF self.score > self.n_high_score
         THEN [self EXCEPT !.n_high_score = self.score] ELSE self

create_debris(self) ==
  LET s1 == [self EXCEPT !.seed_count = (self.seed_count + 1) % SeedModulus]
      lower_speed == CASE s1.difficulty = Undefined -> 1
                       [] s1.difficulty = Cakewalk -> CW_LOWER_SPEED
                       [] s1.difficulty = RMT -> RMT_LOWER_SPEED
                       [] s1.difficulty = Nightmare -> N_LOWER_SPEED
      upper_speed == CASE s1.difficulty = Undefined -> 5
                       [] s1.difficulty = Cakewalk -> CW_UPPER_SPEED
                       [] s1.difficulty = RMT -> RMT_UPPER_SPEED
                       [] s1.difficulty = Nightmare -> N_UPPER_SPEED
  IN IF s1.spawn_countdown = 0
     THEN [s1 EXCEPT
             !.debris = Vec_push(s1.debris,
                                 Debris_new(s1.seed_count, lower_speed, upper_speed)),
             !.spawn_countdown = s1.spawn_rate]
     ELSE [s1 EXCEPT !.spawn_countdown = s1.spawn_countdown - 1]

\* debris_pass in which a collision voids the points the debris ticked
\* before it were awarded in this pass (they are updated in place, so they
\* are the ones now at the score column)
RECURSIVE debris_pass_collision_voids_points(_, _, _)
debris_pass_collision_voids_points(self, i, deleted) ==
  IF i > Len(self.debris)
  THEN [self |-> self, deleted |-> deleted]
  ELSE LET t == Debris_tick(self.debris[i], self.player)
           awarded == Cardinality({j \in 1..(i - 1) :
                                     self.debris[j].col = SCORE_COLUMN})
           s1 == [self EXCEPT !.debris[i] = t.debris, !.player = t.player,
                              !.collide_calls =
                                 IF t.collided THEN @ + 1 ELSE @,
                              !.score = IF t.collided THEN @ - awarded ELSE @]
           s2 == IF t.event = ScorePoint THEN increment_score(s1) ELSE s1
           del == IF t.event = Destroy THEN Vec_push(deleted, i) ELSE deleted
       IN debris_pass_collision_voids_points(s2, i + 1, del)

\* for i in 0..self.debris.len() { match self.debris[i].tick(&mut self.player) }
\* from index i on, with the indices collected so far
RECURSIVE debris_pass(_, _, _)
debris_pass(self, i, deleted) ==
  IF i > Len(self.debris)
  THEN [self |-> self, deleted |-> deleted]
  ELSE LET t == Debris_tick(self.debris[i], self.player)
           s1 == [self EXCEPT !.debris[i] = t.debris, !.player = t.player,
                              !.collide_calls =
                                 IF t.collided THEN @ + 1 ELSE @]
           s2 == IF t.event = ScorePoint THEN increment_score(s1) ELSE s1
           del == IF t.event = Destroy THEN Vec_push(deleted, i) ELSE deleted
       IN debris_pass(s2, i + 1, del)

\* update() up to, and without, its last statement self.create_debris()
update_pool(self) ==
  LET s1 == [self EXCEPT !.seed_count = (self.seed_count + 1) % SeedModulus]
      pt == Player_tick(s1.player)
      s2 == [s1 EXCEPT !.player = pt.player]
      s3 == IF pt.event = GameStopped
            THEN update_high_score([s2 EXCEPT !.player.dy = 0])
            ELSE s2
      pass == debris_pass(s3, 1, <<>>)
  IN [pass.self EXCEPT
        !.debris = remove_rev(pass.self.debris, pass.deleted,
                              Len(pass.deleted))]

\* the indices deleted_debris holds at the end of the pass of update()
update_deleted(self) ==
  LET pt == Player_tick(self.player)
      s2 == [self EXCEPT !.player = pt.player]
  IN debris_pass(s2, 1, <<>>).deleted

update(self) == create_debris(update_pool(self))

RECURSIVE reset_collect(_, _, _)
reset_collect(n, i, deleted) ==
  IF i > n THEN deleted ELSE reset_collect(n, i + 1, Vec_push(deleted, i))

\* reset that does not zero the score
reset_keep_score(self) ==
  LET s1 == [self EXCEPT !.player.game_status = GameRunning]
      s2 == CASE s1.difficulty = Undefined -> s1
              [] s1.difficulty = Cakewalk -> [s1 EXCEPT !.spawn_rate = CW_SPAWN_RATE]
              [] s1.difficulty = RMT -> [s1 EXCEPT !.spawn_rate = RMT_SPAWN_RATE]
              [] s1.difficulty = Nightmare -> [s1 EXCEPT !.spawn_rate = N_SPAWN_RATE]
      deleted == reset_collect(Len(s2.debris), 1, <<>>)
      s3 == [s2 EXCEPT !.debris = remove_rev(s2.debris, deleted, Len(deleted))]
  IN [s3 EXCEPT !.player.row = BUFFER_HEIGHT \div 2,
                !.player.col = BUFFER_WIDTH \div 4,
                !.collide_calls = 0]

\* reset that leaves the debris pool as it is
reset_keep_pool(self) ==
  LET s1 == [self EXCEPT !.player.game_status = GameRunning]
      s2 == CASE s1.difficulty = Undefined -> s1
              [] s1.difficulty = Cakewalk -> [s1 EXCEPT !.spawn_rate = CW_SPAWN_RATE]
              [] s1.difficulty = RMT -> [s1 EXCEPT !.spawn_rate = RMT_SPAWN_RATE]
              [] s1.difficulty = Nightmare -> [s1 EXCEPT !.spawn_rate = N_SPAWN_RATE]
  IN [s2 EXCEPT !.score = 0,
                !.player.row = BUFFER_HEIGHT \div 2,
                !.player.col = BUFFER_WIDTH \div 4,
                !.collide_calls = 0]

reset(self) ==
  LET s1 == [self EXCEPT !.player.game_status = GameRunning]
      s2 == CASE s1.difficulty = Undefined -> s1
              [] s1.difficulty = Cakewalk -> [s1 EXCEPT !.spawn_rate = CW_SPAWN_RATE]
              [] s1.difficulty = RMT -> [s1 EXCEPT !.spawn_rate = RMT_SPAWN_RATE]
              [] s1.difficulty = Nightmare -> [s1 EXCEPT !.spawn_rate = N_SPAWN_RATE]
      deleted == reset_collect(Len(s2.debris), 1, <<>>)
      s3 == [s2 EXCEPT !.debris = remove_rev(s2.debris, deleted, Len(deleted))]
  IN [s3 EXCEPT !.score = 0,
                !.player.row = BUFFER_HEIGHT \div 2,
                !.player.col = BUFFER_WIDTH \div 4,
                !.collide_calls = 0]

\* key without the test of game_status
key_any_status(self, k) ==
  LET s1 == IF k = Unicode("1")
            THEN reset([self EXCEPT !.difficulty = Cakewalk])
            ELSE IF k = Unicode("2")
            THEN reset([self EXCEPT !.difficulty = RMT])
            ELSE IF k = Unicode("3")
            THEN reset([self EXCEPT !.difficulty = Nightmare])
            ELSE self
  IN [s1 EXCEPT !.player = Player_key(s1.player, k)]

key(self, k) ==
  LET s1 == IF self.player.game_status = GameStopped
            THEN IF k = Unicode("1")
                 THEN reset([self EXCEPT !.difficulty = Cakewalk])
                 ELSE IF k = Unicode("2")
                 THEN reset([self EXCEPT !.difficulty = RMT])
                 ELSE IF k = Unicode("3")
                 THEN reset([self EXCEPT !.difficulty = Nightmare])
                 ELSE self
            ELSE self
  IN [s1 EXCEPT !.player = Player_key(s1.player, k)]

\* ----------------------------------------------------------- specification
\* cpu_loop: let mut game = SpaceDebrisGame::default();
InitGame ==
  /\ player = SpaceDebrisGame_default.player
  /\ debris = SpaceDebrisGame_default.debris
  /\ score = SpaceDebrisGame_default.score
  /\ cw_high_score = SpaceDebrisGame_default.cw_high_score
  /\ rmt_high_score = SpaceDebrisGame_default.rmt_high_score
  /\ n_high_score = SpaceDebrisGame_default.n_high_score
  /\ spawn_countdown = SpaceDebrisGame_default.spawn_countdown
  /\ spawn_rate = SpaceDebrisGame_default.spawn_rate
  /\ seed_count = SpaceDebrisGame_default.seed_count
  /\ difficulty = SpaceDebrisGame_default.difficulty
  /\ collide_calls = SpaceDebrisGame_default.collide_calls

\* main.rs: LAST_KEY = AtomicCell::new(None), TICKED = AtomicCell::new(false),
\* and cpu_loop about to poll TICKED for the first time
InitLoop ==
  /\ TICKED = FALSE
  /\ LAST_KEY = None
  /\ pc = "poll_tick"
  /\ prev = None
  /\ burst = 0
  /\ ticks = 0
  /\ presses = 0
  /\ stored = 0
  /\ latest = None
  /\ delivered = 0
  /\ mark = 0

Init ==
  /\ InitGame
  /\ InitLoop
  /\ rng \in 0..(RngDraws - 1)

\* cpu_loop: a pending tick runs game.update()
Update ==
  /\ \E g \in {update(Self)} :
        /\ g.score <= MaxScore
        /\ Assign(g)
  /\ UNCHANGED <<loop_vars, mark>>

\* cpu_loop: a pending key k runs game.key(k)
Key(k) ==
  /\ k \in DecodedKey
  /\ \E g \in {key(Self, k)} : Assign(g)
  /\ UNCHANGED <<loop_vars, mark>>

Next == Update \/ \E k \in DecodedKey : Key(k)

Spec == Init /\ [][Next]_vars

\* A second environment, for the claims about a full debris pool: the
\* generator may yield slow debris, the player selects a difficulty and then
\* never steers, and a round may run until the score reaches MaxScorePool.
InitPool ==
  /\ InitGame
  /\ InitLoop
  /\ rng \in 0..(PoolRngDraws - 1)

UpdatePool ==
  /\ \E g \in {update(Self)} :
        /\ g.score <= MaxScorePool
        /\ Assign(g)
  /\ UNCHANGED <<loop_vars, mark>>

SelectKey == {Unicode("1"), Unicode("2"), Unicode("3")}

KeySelect(k) ==
  /\ k \in SelectKey
  /\ \E g \in {key(Self, k)} : Assign(g)
  /\ UNCHANGED <<loop_vars, mark>>

NextPool == UpdatePool \/ \E k \in SelectKey : KeySelect(k)

SpecPool == InitPool /\ [][NextPool]_vars

\* A third environment, for the pool pass of update(): the run starts in the
\* middle of a Road Most Travelled round, or right after its collision, with
\* a pool of debris of different speeds at chosen columns, and update() is
\* called MaxPassTicks times.
\* A debris of the pool is about to move to column 0, or about to move to the
\* player's column, or waiting in the middle of the grid.
PassDebris ==
  {d \in [col : {1, BUFFER_WIDTH \div 4 + 1, BUFFER_WIDTH \div 2},
          row : {2}, dx : {RMT_LOWER_SPEED, RMT_LOWER_SPEED + 1},
          dx_tick : {0, 1}] :
     d.dx_tick = 1 <=> d.col = BUFFER_WIDTH \div 2}

\* debris of equal speed keep their spawn order on the grid
PassPool ==
  {v \in UNION {[1..n -> PassDebris] : n \in 0..MaxPassLen} :
     \A i, j \in 1..Len(v) :
        (i < j /\ v[i].dx = v[j].dx) => v[i].col < v[j].col}

\* the points the debris now left of the score column have earned
PassScore(v) ==
  Cardinality({i \in 1..Len(v) : v[i].col < SCORE_COLUMN /\ v[i].dx = RMT_LOWER_SPEED})
     * (RMT_LOWER_SPEED + 1)
  + Cardinality({i \in 1..Len(v) : v[i].col < SCORE_COLUMN /\ v[i].dx # RMT_LOWER_SPEED})
     * (RMT_LOWER_SPEED + 2)

InitPass ==
  /\ InitLoop
  /\ rng \in 0..(RngDraws - 1)
  /\ debris \in PassPool
  /\ player \in [col : {BUFFER_WIDTH \div 4}, row : 0..(BUFFER_HEIGHT - 1),
                 dy : {-1, 1}, game_status : GameStatus]
  /\ collide_calls = (IF player.game_status = GameStopped THEN 1 ELSE 0)
  /\ score = PassScore(debris)
  /\ cw_high_score = 0
  /\ rmt_high_score = 0
  /\ n_high_score = 0
  /\ spawn_countdown \in {0, 1}
  /\ spawn_rate = RMT_SPAWN_RATE
  /\ seed_count = 0
  /\ difficulty = RMT

\* a timer interrupt answered by game.update()
UpdatePass ==
  /\ ticks < MaxPassTicks
  /\ ticks' = ticks + 1
  /\ \E g \in {update(Self)} : Assign(g)
  /\ UNCHANGED <<TICKED, LAST_KEY, pc, prev, burst, presses, stored, latest,
                 delivered, mark>>

NextPass == UpdatePass

SpecPass == InitPass /\ [][NextPass]_vars

\* A fourth environment, for the life of one debris: timer interrupts never
\* cease, so update() is called again and again; the player selects
\* Nightmare and may steer down.  One debris may be followed from the
\* update() that spawns it: mark is its index in the pool, moved down by the
\* removals below it and back to 0 when it is removed itself.
LiveKey == {Unicode("3"), RawKey("ArrowDown")}

\* where the followed debris m is once the indices deleted are removed
mark_after_remove(deleted, m) ==
  IF \E k \in 1..Len(deleted) : deleted[k] = m
  THEN 0
  ELSE m - Cardinality({k \in 1..Len(deleted) : deleted[k] < m})

UpdateLive ==
  /\ \E g \in {update(Self)} :
        /\ Assign([g EXCEPT !.score = g.score % ScoreModulus])
        /\ \E deleted \in {update_deleted(Self)} :
           \E follow \in BOOLEAN :
              mark' = IF mark > 0 THEN mark_after_remove(deleted, mark)
                      ELSE IF follow /\ spawn_countdown = 0
                                     /\ Len(debris) - Len(deleted) < DEBRIS_CAPACITY
                      THEN Len(g.debris)
                      ELSE 0
  /\ UNCHANGED loop_vars

KeyLive(k) ==
  /\ k \in LiveKey
  /\ \E g \in {key(Self, k)} :
        /\ Assign(g)
        /\ mark' = IF g.debris = <<>> THEN 0 ELSE mark
  /\ UNCHANGED loop_vars

NextLive == UpdateLive \/ \E k \in LiveKey : KeyLive(k)

\* update() moves seed_count by two and no other step moves it: the steps of
\* UpdateLive are the steps of NextLive that are TickStep steps, and one is
\* possible in every state
TickStep == seed_count' = (seed_count + 2) % SeedModulus

\* the timer interrupt keeps firing and cpu_loop keeps polling TICKED: update()
\* is called infinitely often
SpecLive == Init /\ [][NextLive]_vars /\ WF_seed_count(TickStep)

\* ------------------------------------------------- main.rs: the polling loop
\* compare_exchange that reports success without storing
compare_exchange_no_store(cell, current, new) ==
  IF cell = current
  THEN [cell |-> cell, ok |-> TRUE, value |-> cell]
  ELSE [cell |-> cell, ok |-> FALSE, value |-> cell]

\* AtomicCell::compare_exchange(current, new): the cell after the call, whether
\* it succeeded, and the value the cell held
compare_exchange(cell, current, new) ==
  IF cell = current
  THEN [cell |-> new, ok |-> TRUE, value |-> cell]
  ELSE [cell |-> cell, ok |-> FALSE, value |-> cell]

\* the keys the keyboard handler is given in this specification
LoopKey == {Unicode("3"), Unicode("r"), RawKey("ArrowDown")}

\* fn tick(): the timer interrupt, at any point of cpu_loop
main_tick ==
  /\ ticks < MaxTicks
  /\ TICKED' = TRUE
  /\ burst' = burst + 1
  /\ ticks' = ticks + 1
  /\ UNCHANGED <<LAST_KEY, pc, prev, presses, stored, latest, delivered, mark>>
  /\ Assign(Self)

\* fn key(key): the keyboard interrupt, at any point of cpu_loop
main_key(k) ==
  /\ k \in LoopKey
  /\ presses < MaxPresses
  /\ LAST_KEY' = k
  /\ presses' = presses + 1
  /\ stored' = presses + 1
  /\ latest' = k
  /\ UNCHANGED <<TICKED, pc, prev, burst, ticks, delivered, mark>>
  /\ Assign(Self)

\* if let Ok(_) = TICKED.compare_exchange(true, false)
cpu_loop_poll_tick ==
  /\ pc = "poll_tick"
  /\ LET r == compare_exchange(TICKED, TRUE, FALSE)
     IN /\ TICKED' = r.cell
        /\ pc' = IF r.ok THEN "update" ELSE "load_key"
  /\ burst' = 0
  /\ UNCHANGED <<LAST_KEY, prev, ticks, presses, stored, latest, delivered, mark>>
  /\ Assign(Self)

\* game.update()
cpu_loop_update ==
  /\ pc = "update"
  /\ \E g \in {update(Self)} : Assign(g)
  /\ pc' = "load_key"
  /\ UNCHANGED <<TICKED, LAST_KEY, prev, burst, ticks, presses, stored, latest,
                 delivered, mark>>

\* LAST_KEY.fetch_update(f): prev = load(); f(prev) is None when prev is None,
\* and fetch_update then returns Err
cpu_loop_load_key ==
  /\ pc = "load_key"
  /\ prev' = LAST_KEY
  /\ pc' = IF LAST_KEY = None THEN "poll_tick" ELSE "cas_key"
  /\ UNCHANGED <<TICKED, LAST_KEY, burst, ticks, presses, stored, latest,
                 delivered, mark>>
  /\ Assign(Self)

\* fetch_update: compare_exchange(prev, None); Ok ends it with Ok(prev), Err
\* retries with the value found
cpu_loop_cas_key ==
  /\ pc = "cas_key"
  /\ LET r == compare_exchange(LAST_KEY, prev, None)
     IN /\ LAST_KEY' = r.cell
        /\ prev' = IF r.ok THEN prev ELSE r.value
        /\ pc' = IF r.ok THEN "key" ELSE "cas_key"
        /\ delivered' = IF r.ok THEN stored ELSE delivered
        /\ stored' = IF r.cell = None THEN 0 ELSE stored
  /\ UNCHANGED <<TICKED, burst, ticks, presses, latest, mark>>
  /\ Assign(Self)

\* game.key(k)
cpu_loop_key ==
  /\ pc = "key"
  /\ \E g \in {key(Self, prev)} : Assign(g)
  /\ pc' = "poll_tick"
  /\ UNCHANGED <<TICKED, LAST_KEY, prev, burst, ticks, presses, stored, latest,
                 delivered, mark>>

NextLoop ==
  \/ main_tick
  \/ \E k \in LoopKey : main_key(k)
  \/ cpu_loop_poll_tick
  \/ cpu_loop_update
  \/ cpu_loop_load_key
  \/ cpu_loop_cas_key
  \/ cpu_loop_key

SpecLoop == Init /\ [][NextLoop]_vars

\* ------------------------------------------------------- steps and lookups
\* the step is one call of update(): update() moves seed_count, key() never
\* does
UpdateStep == seed_count' # seed_count

\* the step is one call of key()
KeyStep == seed_count' = seed_count

\* the step is a call of key() that runs reset()
ResetStep ==
  /\ player.game_status = GameStopped
  /\ seed_count' = seed_count
  /\ \E k \in SelectKey : \E g \in {key(Self, k)} : Assign(g)

\* the high score kept for difficulty d
HighScoreOf(d) ==
  CASE d = Cakewalk -> cw_high_score
    [] d = RMT -> rmt_high_score
    [] d = Nightmare -> n_high_score
    [] OTHER -> 0

\* the debris that move into the score column in the next update()
EnteringScoreColumn ==
  {i \in 1..Len(debris) :
     debris[i].col = SCORE_COLUMN + 1 /\ debris[i].dx_tick = 0}

\* ------------------------------------------------------------------ claims

\* C1: in an update() of a Running round that stays Running, score grows by
\* one for each debris whose column becomes 18 in that update(), and by
\* nothing for a debris that already waits at column 18.
C1_ScoreOncePerDebris ==
  [][(UpdateStep /\ player.game_status = GameRunning
                 /\ player'.game_status = GameRunning)
       => score' = score + Cardinality(EnteringScoreColumn)]_vars

\* C2: when the next round starts after a round at difficulty d ended with
\* score s, the high score of d is at least s.
C2_FinalScoreFolded ==
  [][(ResetStep /\ difficulty # Undefined) => HighScoreOf(difficulty) >= score]_vars

\* C3: immediately after every reset() the player's velocity dy is 0.
C3_ResetZeroesVelocity ==
  [][ResetStep => player'.dy = 0]_vars

\* C4: immediately after every reset() the score is 0, the debris pool is
\* empty, the player is at column BUFFER_WIDTH/4 and row BUFFER_HEIGHT/2 and
\* its status is GameRunning.
C4_ResetPostcondition ==
  [][ResetStep => /\ score' = 0
                  /\ debris' = <<>>
                  /\ player'.col = BUFFER_WIDTH \div 4
                  /\ player'.row = BUFFER_HEIGHT \div 2
                  /\ player'.game_status = GameRunning]_vars

\* a round has just been restarted after a round that scored and left the
\* player off its spawn row had ended
C4_Witness ==
  /\ player.game_status = GameRunning
  /\ debris = <<>>
  /\ score = 0
  /\ player.row = BUFFER_HEIGHT \div 2
  /\ player.dy # 0
  /\ HighScoreOf(difficulty) > 0

\* C5: no high score ever decreases, and a high score changes only in an
\* update() executed while its difficulty is the active one, the other two
\* high scores being left unchanged.
C5_HighScoreMonotone ==
  [][/\ cw_high_score' >= cw_high_score
     /\ rmt_high_score' >= rmt_high_score
     /\ n_high_score' >= n_high_score
     /\ cw_high_score' # cw_high_score =>
          /\ UpdateStep /\ difficulty = Cakewalk
          /\ rmt_high_score' = rmt_high_score /\ n_high_score' = n_high_score
     /\ rmt_high_score' # rmt_high_score =>
          /\ UpdateStep /\ difficulty = RMT
          /\ cw_high_score' = cw_high_score /\ n_high_score' = n_high_score
     /\ n_high_score' # n_high_score =>
          /\ UpdateStep /\ difficulty = Nightmare
          /\ cw_high_score' = cw_high_score /\ rmt_high_score' = rmt_high_score]_vars

\* a round has ended by collision and its score, lower than the high score
\* of its difficulty, has been folded by the update() that followed
C5_Witness ==
  /\ player.game_status = GameStopped
  /\ collide_calls = 1
  /\ player.dy = 0
  /\ debris # <<>>
  /\ score < HighScoreOf(difficulty)

\* some debris coincides with the player once both have moved in this update()
CoincidenceAfterMove ==
  \E i \in 1..Len(debris) :
     LET e == Debris_update_location(debris[i])
         p == Player_update_location(player)
     IN e.col = p.col /\ e.row = p.row

\* C6: in an update() of a Running round, a debris that coincides with the
\* player after its move stops the player in that update(); collide() runs at
\* most once per round; the status goes from Running to Stopped only in an
\* update() that runs collide(), and back to Running only through reset().
C6_CollisionStopsOnce ==
  /\ [](collide_calls <= 1)
  /\ [][(UpdateStep /\ player.game_status = GameRunning /\ CoincidenceAfterMove)
          => player'.game_status = GameStopped]_vars
  /\ [][(player.game_status = GameRunning /\ player'.game_status = GameStopped)
          => (UpdateStep /\ CoincidenceAfterMove
                /\ collide_calls = 0 /\ collide_calls' = 1)]_vars
  /\ [][(player.game_status = GameStopped /\ player'.game_status = GameRunning)
          => ResetStep]_vars

\* the update() in which a debris reached the player's cell has just run
C6_Witness ==
  /\ player.game_status = GameStopped
  /\ collide_calls = 1
  /\ \E i \in 1..Len(debris) :
        debris[i].col = player.col /\ debris[i].row = player.row

\* C7: while the player is GameStopped no key() changes its velocity dy.
C7_StoppedIgnoresKeys ==
  [][(player.game_status = GameStopped /\ KeyStep) => player'.dy = player.dy]_vars

\* a collision has just stopped a moving player: key() can be called with the
\* velocity still non-zero
C7_Witness ==
  /\ player.game_status = GameStopped
  /\ player.dy # 0
  /\ collide_calls = 1

\* C8: dy is always -1, 0 or +1; a key() leaves dy unchanged or sets it to -1
\* or +1, and never turns a non-zero dy into 0.
C8_VelocityNeverZeroed ==
  /\ [](player.dy \in {-1, 0, 1})
  /\ [][KeyStep => /\ (player'.dy = player.dy \/ player'.dy \in {-1, 1})
                   /\ (player.dy # 0 => player'.dy # 0)]_vars

\* the player of a Running round is moving up, on a row it cannot have
\* reached from its spawn row by moving up only: it has been re-steered or
\* has wrapped
C8_Witness ==
  /\ player.game_status = GameRunning
  /\ player.dy = -1
  /\ player.row > BUFFER_HEIGHT \div 2

\* C9: the player's row is always in [0, BUFFER_HEIGHT) and its column is
\* BUFFER_WIDTH/4; every update() moves the row by dy modulo BUFFER_HEIGHT.
C9_PlayerRowWraps ==
  /\ [](/\ player.row \in 0..(BUFFER_HEIGHT - 1)
        /\ player.col = BUFFER_WIDTH \div 4)
  /\ [][UpdateStep =>
          player'.row = (player.row + player.dy + BUFFER_HEIGHT) % BUFFER_HEIGHT]_vars

\* the player is on the bottom row and moving up
C9_Witness ==
  /\ player.row = BUFFER_HEIGHT - 1
  /\ player.dy = -1

\* C10: the pool never holds more than DEBRIS_CAPACITY debris; when update()
\* reaches create_debris() with a full pool and spawn_countdown 0, the pool is
\* left as it is and spawn_countdown is reset to spawn_rate.
C10_PoolBounded ==
  /\ [](Len(debris) <= DEBRIS_CAPACITY)
  /\ [][(UpdateStep /\ spawn_countdown = 0
           /\ Len(update_pool(Self).debris) = DEBRIS_CAPACITY)
          => /\ debris' = update_pool(Self).debris
             /\ spawn_countdown' = spawn_rate]_vars

\* the pool is full, spawn_countdown has just been reset, and the newest
\* debris is not a fresh one: the spawn of this update() was dropped
C10_Witness ==
  /\ Len(debris) = DEBRIS_CAPACITY
  /\ spawn_countdown = spawn_rate
  /\ debris[DEBRIS_CAPACITY].col # BUFFER_WIDTH - 1

\* C11: a key '1', '2' or '3' delivered while the player is GameRunning leaves
\* the whole game as it is (difficulty, score, pool, spawn_rate, player);
\* the difficulty changes only in a key() called while GameStopped, and that
\* call runs reset().
C11_SelectKeyOnlyWhenStopped ==
  /\ [](player.game_status = GameRunning =>
          \A k \in SelectKey : key(Self, k) = Self)
  /\ [][difficulty' # difficulty => ResetStep]_vars
  /\ [][(KeyStep /\ player.game_status = GameRunning) =>
          /\ difficulty' = difficulty /\ score' = score /\ debris' = debris
          /\ spawn_rate' = spawn_rate /\ spawn_countdown' = spawn_countdown
          /\ player'.row = player.row /\ player'.col = player.col
          /\ player'.game_status = GameRunning]_vars

\* a Running round with a score, a moving player and debris in the pool, in
\* which the select keys are delivered and have nothing to reset
C11_Witness ==
  /\ player.game_status = GameRunning
  /\ score > 0
  /\ player.dy # 0
  /\ Len(debris) > 1
  /\ \A k \in SelectKey : key(Self, k) = Self

\* C13: an update() in which a collision stops the player leaves score as it
\* was.
C13_NoPointInCollisionTick ==
  [][(UpdateStep /\ player.game_status = GameRunning
                 /\ player'.game_status = GameStopped)
       => score' = score]_vars

\* the first debris, in insertion order, that coincides with the player once
\* both have moved in this update()
FirstCollider ==
  CHOOSE i \in 1..Len(debris) :
     /\ LET e == Debris_update_location(debris[i])
            p == Player_update_location(player)
        IN e.col = p.col /\ e.row = p.row
     /\ \A j \in 1..(i - 1) :
           LET e == Debris_update_location(debris[j])
               p == Player_update_location(player)
           IN ~(e.col = p.col /\ e.row = p.row)

\* the debris ticked before the first collider that are at the score column
\* after their move
PointsBeforeCollision ==
  Cardinality({j \in 1..(FirstCollider - 1) :
                 Debris_update_location(debris[j]).col = SCORE_COLUMN})

\* C13 (amended): an update() in which a collision stops the player raises
\* score by one for each debris that precedes the colliding debris in
\* insertion order and is at column 18 after its move, and by nothing else.
C13_PointsOnlyBeforeCollision ==
  [][(UpdateStep /\ player.game_status = GameRunning
                 /\ player'.game_status = GameStopped)
       => score' = score + PointsBeforeCollision]_vars

\* the update() of the collision has just run, and in it a debris older than
\* the collider moved into the score column and was awarded the only point
C13_Witness ==
  /\ player.game_status = GameStopped
  /\ collide_calls = 1
  /\ score = 1
  /\ \E c \in 1..Len(debris) :
        /\ debris[c].col = player.col /\ debris[c].row = player.row
        /\ \E j \in 1..(c - 1) :
              /\ debris[j].col = SCORE_COLUMN
              /\ debris[j].dx_tick = debris[j].dx

\* C14: immediately after every reset() spawn_countdown equals the spawn
\* interval of the selected difficulty.
C14_ResetSetsCountdown ==
  [][ResetStep => spawn_countdown' = spawn_rate']_vars

\* C15: in a Running round the update() that takes spawn_countdown from 1 to
\* zero is the one that attempts the spawn and leaves spawn_countdown at the
\* spawn interval, so that attempts are spawn_rate update() calls apart.
C15_SpawnOnReachingZero ==
  [][(UpdateStep /\ player.game_status = GameRunning /\ spawn_countdown = 1)
       => spawn_countdown' = spawn_rate]_vars

\* debris e is debris d one update() later: same row and speed, one column to
\* the left if d had waited out its delay, otherwise one tick less to wait
OneTickLater(d, e) ==
  /\ e.row = d.row
  /\ e.dx = d.dx
  /\ IF d.dx_tick = 0
     THEN e.col = d.col - 1 /\ e.dx_tick = d.dx
     ELSE e.col = d.col /\ e.dx_tick = d.dx_tick - 1

\* the debris of the pool, in order, that do not move to column 0 in the
\* next update()
NotReachingColumnZero ==
  SelectSeq(debris, LAMBDA d : ~(d.col = 1 /\ d.dx_tick = 0))

\* C16: no debris in the pool is ever at column 0 and its delay counter never
\* exceeds its speed dx; an update() of a round that stays Running removes
\* exactly the debris that move to column 0, leaves the others in order, each
\* on its row, moved one column left after dx update() calls of waiting, and
\* appends at most one new debris, at column BUFFER_WIDTH-1.
C16_DebrisMovesLeft ==
  /\ [](\A i \in 1..Len(debris) :
          /\ debris[i].col \in 1..(BUFFER_WIDTH - 1)
          /\ debris[i].dx_tick \in 0..debris[i].dx)
  /\ [][(UpdateStep /\ player.game_status = GameRunning
                    /\ player'.game_status = GameRunning)
          => LET kept == NotReachingColumnZero
                 n == Len(kept)
             IN /\ Len(debris') \in {n, n + 1}
                /\ \A i \in 1..n : OneTickLater(kept[i], debris'[i])
                /\ Len(debris') = n + 1 =>
                     /\ debris'[n + 1].col = BUFFER_WIDTH - 1
                     /\ debris'[n + 1].dx_tick = 0]_vars

\* a Running round holds more points than the debris now left of the score
\* column can have earned: debris that scored have since reached column 0
\* and left the pool
C16_Witness ==
  /\ player.game_status = GameRunning
  /\ debris # <<>>
  /\ score > Cardinality({i \in 1..Len(debris) : debris[i].col <= SCORE_COLUMN})
               * (debris[1].dx + 1)
  /\ debris[1].col < SCORE_COLUMN

\* C17: an update() that starts with the player GameStopped leaves score and
\* the status as they are, runs no collide(), and ends with a pool that holds
\* nothing but the debris create_debris() spawned in it: one debris at column
\* BUFFER_WIDTH-1 if spawn_countdown was 0, none otherwise.
C17_StoppedUpdateDrainsPool ==
  [][(UpdateStep /\ player.game_status = GameStopped)
       => /\ score' = score
          /\ collide_calls' = collide_calls
          /\ player'.game_status = GameStopped
          /\ Len(debris') = (IF spawn_countdown = 0 THEN 1 ELSE 0)
          /\ \A i \in 1..Len(debris') :
                /\ debris'[i].col = BUFFER_WIDTH - 1
                /\ debris'[i].dx_tick = 0]_vars

\* a steered player has collided, the update() after the collision has zeroed
\* its velocity, and the pool of the round is gone with nothing spawned
C17_Witness ==
  /\ player.game_status = GameStopped
  /\ collide_calls = 1
  /\ player.dy = 0
  /\ player.row # BUFFER_HEIGHT \div 2
  /\ debris = <<>>
  /\ spawn_countdown > 0

\* the speeds [lower, upper) of difficulty d
SpeedRange(d) ==
  CASE d = Cakewalk -> CW_LOWER_SPEED..(CW_UPPER_SPEED - 1)
    [] d = RMT -> RMT_LOWER_SPEED..(RMT_UPPER_SPEED - 1)
    [] d = Nightmare -> N_LOWER_SPEED..(N_UPPER_SPEED - 1)
    [] OTHER -> {}

\* C19: whenever the player is GameRunning the difficulty is not Undefined
\* and every debris in the pool has its speed in the range of that difficulty
\* and its row in [2, BUFFER_HEIGHT).
C19_PoolOfActiveDifficulty ==
  player.game_status = GameRunning =>
    /\ difficulty # Undefined
    /\ \A i \in 1..Len(debris) :
          /\ debris[i].dx \in SpeedRange(difficulty)
          /\ debris[i].row \in 2..(BUFFER_HEIGHT - 1)

\* a Cakewalk round with debris in its pool, started after a Nightmare round
\* that scored had ended
C19_Witness ==
  /\ player.game_status = GameRunning
  /\ difficulty = Cakewalk
  /\ n_high_score > 0
  /\ Len(debris) > 1

\* C12: with the two interrupt handlers running at any point of cpu_loop, a
\* poll of TICKED starts game.update() exactly when at least one timer
\* interrupt arrived since the previous poll, however many, and clears the
\* flag; the key handed to game.key() is the key of the latest keyboard
\* interrupt, each press is handed over at most once; and the game changes
\* only in a call of update() or key() made by cpu_loop, one at a time.
C12_PollingLoop ==
  /\ [](TICKED <=> burst > 0)
  /\ [][(pc = "poll_tick" /\ pc' # pc)
          => /\ (pc' = "update") <=> (burst > 0)
             /\ TICKED' = FALSE]_vars
  /\ [][(pc = "cas_key" /\ pc' = "key")
          => /\ prev' = latest
             /\ delivered' = presses
             /\ delivered' > delivered
             /\ LAST_KEY' = None]_vars
  /\ [][Self' # Self
          => \/ pc = "update" /\ pc' = "load_key" /\ Self' = update(Self)
             \/ pc = "key" /\ pc' = "poll_tick" /\ Self' = key(Self, prev)]_vars

\* two timer interrupts have been answered by one update(), and of two key
\* presses the second is about to be handed to game.key()
C12_Witness ==
  /\ ticks = 2
  /\ ~TICKED
  /\ seed_count = 2 % SeedModulus
  /\ presses = 2
  /\ delivered = 2
  /\ pc = "key"

\* the last debris ticked as in a Running round by the next update(): the
\* first collider if there is one, the last of the pool otherwise
LastTicked ==
  IF player.game_status # GameRunning THEN 0
  ELSE IF CoincidenceAfterMove THEN FirstCollider
  ELSE Len(debris)

\* debris i as the pass of the next update() leaves it
Ticked(i) ==
  IF i <= LastTicked THEN Debris_update_location(debris[i]) ELSE debris[i]

\* the indices the pass of the next update() does not classify Destroy
Surviving ==
  {i \in 1..Len(debris) : i <= LastTicked /\ Ticked(i).col # 0}

\* the k-th surviving index in insertion order
NthSurviving(k) ==
  CHOOSE i \in Surviving : Cardinality({j \in Surviving : j < i}) = k - 1

\* C18: every update() ticks each debris once, in insertion order (the debris
\* after the first collider find the player stopped), removes exactly the
\* debris classified Destroy and leaves the others in their order, followed
\* by the debris create_debris() may have spawned.
C18_PassRemovesExactlyDestroyed ==
  [][UpdateStep
       => LET n == Cardinality(Surviving)
          IN /\ Len(debris') =
                  n + (IF spawn_countdown = 0 /\ n < DEBRIS_CAPACITY THEN 1 ELSE 0)
             /\ \A k \in 1..n : debris'[k] = Ticked(NthSurviving(k))]_vars

\* the first pass has removed a debris that reached column 0 (its points are
\* in the score) and has left, in their order, a slower debris that waited
\* and a faster one that then stopped the player
C18_Witness ==
  /\ ticks = 1
  /\ player.game_status = GameStopped
  /\ collide_calls = 1
  /\ score > 0
  /\ Len(debris) = 2
  /\ debris[1].col = BUFFER_WIDTH \div 2
  /\ debris[1].dx_tick = 0
  /\ debris[1].dx > debris[2].dx
  /\ debris[2].col = player.col
  /\ debris[2].row = player.row

\* C20: with update() called again and again, a debris that entered the pool
\* is eventually removed from it.
C20_DebrisEventuallyRemoved ==
  (mark > 0) ~> (mark = 0)

\* the followed debris has crossed the whole grid and is one move from
\* column 0
C20_Witness ==
  /\ mark > 0
  /\ player.game_status = GameRunning
  /\ debris[mark].col = 1
====
